---- MODULE Spec2Model ----
(***************************************************************************)
(* Model of cmscontrib/CleanFiles.py: the tombstone rewriter               *)
(* (make_tombstone), the orphan collector (clean_files) and the driver     *)
(* (main) that sequences them inside one SessionGen scope.                 *)
(*                                                                         *)
(* The relational store is a table of rows per entity class; the file      *)
(* store is the set of digests it holds.  Every blocking call of the       *)
(* script (a query, the listing, a size lookup, a delete, the commit) is   *)
(* one step, and each of them may fail.                                    *)
(***************************************************************************)
EXTENDS Integers, Sequences, FiniteSets, TLC

\* ------------------------------------------------------------------ bounds
MaxDigests == 2     \* number of distinct non-tombstone digests
MaxExe == 2         \* rows of the Executable table in an initial database
MaxOther == 1       \* rows of all the other tables in an initial database
MaxWrites == 1      \* rows inserted or objects ingested by other processes
MaxExeConc == 1     \* Executable rows in the database writers run against

\* ------------------------------------------------------------- the schema
TOMBSTONE_DIGEST == "x"
None == "None"

DigestNames == <<"d1", "d2", "d3", "d4">>
RealDigests == {DigestNames[i] : i \in 1..MaxDigests}
Digests == RealDigests \cup {TOMBSTONE_DIGEST}

\* the list clean_files iterates, in its order
ClsList == <<"Attachment", "Executable", "File", "Manager", "PrintJob",
             "Statement", "Testcase", "UserTest", "UserTestExecutable",
             "UserTestFile", "UserTestManager", "UserTestResult">>
ColList == <<"input", "output", "digest">>
Classes == {ClsList[i] : i \in 1..Len(ClsList)}
Columns == {ColList[i] : i \in 1..Len(ColList)}

\* hasattr(cls, col): the digest-valued columns of each entity class
HasAttr(cls, col) ==
    CASE cls = "Testcase" -> col \in {"input", "output"}
      [] cls = "UserTest" -> col = "input"
      [] cls = "UserTestResult" -> col = "output"
      [] OTHER -> col = "digest"

\* the columns that may hold NULL
Nullable(cls, col) == cls = "UserTestResult" /\ col = "output"

Cols(cls) == {col \in Columns : HasAttr(cls, col)}

RowsOf(cls) ==
    {r \in [Cols(cls) -> Digests \cup {None}] :
        \A col \in Cols(cls) : r[col] = None => Nullable(cls, col)}

\* FileCacher.get_size: the byte size of the object stored under a digest
get_size(d) ==
    CASE d = "d1" -> 3
      [] d = "d2" -> 5
      [] d = "d3" -> 7
      [] d = "d4" -> 11
      [] OTHER -> 2

RECURSIVE SumSize(_)
SumSize(S) ==
    IF S = {} THEN 0
    ELSE LET d == CHOOSE e \in S : TRUE IN get_size(d) + SumSize(S \ {d})

\* ------------------------------------------------------------------ state
VARIABLES
    store,       \* the file store: the digests FileCacher.list() returns
    committed,   \* the relational store as committed: class -> rows
    session,     \* the rows as the open session sees them
    pc,          \* where the driver is
    args,        \* [tombstone, dry_run] of the running driver
    idx,         \* loop position: Executable row, or (class, column) pair
    files,       \* clean_files' local set
    todo,        \* what the running for-loop over files has left
    total,       \* clean_files' total_size
    count,       \* make_tombstone's count (what it logs)
    retval,      \* what make_tombstone(session) handed back to main:
                 \* <<v>> for a value v, <<>> for None
    sizeCalls,   \* calls of filecacher.get_size per digest, this run
    delCalls,    \* calls of filecacher.delete per digest, this run
    start,       \* the stores as they were when this run began
    prev,        \* summary of the run before this one
    listed,      \* what filecacher.list() returned to this run
    wlog         \* what other processes wrote, and when

vars == <<store, committed, session, pc, args, idx, files, todo, total,
          count, retval, sizeCalls, delCalls, start, prev, listed, wlog>>

\* ------------------------------------------------------ the reference set
NoCalls == [d \in Digests |-> 0]

\* session.query(cls).all() projected on col, as a set
Projected(db, cls, col) == {db[cls][i][col] : i \in 1..Len(db[cls])}

\* found_digests of one (cls, col) iteration, after the discard
FoundDigests(db, cls, col) == Projected(db, cls, col) \ {TOMBSTONE_DIGEST}

\* the (class, column) pairs in iteration order, numbered 1..NumPairs
NumPairs == Len(ClsList) * Len(ColList)
PairCls(k) == ClsList[((k - 1) \div Len(ColList)) + 1]
PairCol(k) == ColList[((k - 1) % Len(ColList)) + 1]

\* the next pair at or after k that passes the hasattr test
NextPair(k) ==
    LET S == {j \in k..NumPairs : HasAttr(PairCls(j), PairCol(j))}
    IN IF S = {} THEN NumPairs + 1
       ELSE CHOOSE j \in S : \A i \in S : j <= i

\* ---------------------------------------------------------- initial states
EmptyDb == [c \in Classes |-> <<>>]

ExeTables ==
    UNION {[1..n -> RowsOf("Executable")] : n \in 0..MaxExe}

RECURSIVE WithOthers(_)
WithOthers(n) ==
    IF n = 0 THEN {EmptyDb}
    ELSE LET smaller == WithOthers(n - 1)
         IN smaller \cup
            UNION {UNION {{[db EXCEPT ![c] = Append(@, r)] : r \in RowsOf(c)}
                          : c \in Classes \ {"Executable"}} : db \in smaller}

InitDbs ==
    UNION {{[db EXCEPT !["Executable"] = exes] : exes \in ExeTables}
           : db \in WithOthers(MaxOther)}

NoRun == [outcome |-> "none", tombstone |-> FALSE, dry_run |-> FALSE,
          orphans |-> {}, total |-> 0, startStore |-> {}, startDb |-> EmptyDb]

Init ==
    /\ store \in SUBSET Digests
    /\ committed \in InitDbs
    /\ session = committed
    /\ pc = "idle"
    /\ args = [tombstone |-> FALSE, dry_run |-> FALSE]
    /\ idx = 0
    /\ files = {}
    /\ todo = {}
    /\ total = 0
    /\ count = 0
    /\ retval = <<>>
    /\ sizeCalls = NoCalls
    /\ delCalls = NoCalls
    /\ start = [store |-> store, db |-> committed]
    /\ prev = NoRun
    /\ listed = {}
    /\ wlog = <<>>

\* ------------------------------------------------------------- the driver
\* what every step of the script does to the record kept of it: the listing
\* it took is remembered until it ends, and it writes nothing of what the
\* other processes write
Observed ==
    /\ listed' = IF pc' = "idle" THEN {}
                 ELSE IF pc = "list" THEN store
                 ELSE listed
    /\ UNCHANGED wlog

\* mutant of Start: clean_files is entered without make_tombstone having run
StartSkipsTombstone(t, n) ==
    /\ pc = "idle"
    /\ prev.outcome # "aborted"
    /\ args' = [tombstone |-> t, dry_run |-> n]
    /\ session' = committed
    /\ start' = [store |-> store, db |-> committed]
    /\ pc' = "list"
    /\ idx' = 0
    /\ files' = {}
    /\ todo' = {}
    /\ total' = 0
    /\ count' = 0
    /\ retval' = <<>>
    /\ sizeCalls' = NoCalls
    /\ delCalls' = NoCalls
    /\ UNCHANGED <<store, committed, prev>>
    /\ Observed

\* main: parse the flags and enter "with SessionGen() as session".  A run
\* that was aborted is not followed by another one: the stores it leaves
\* behind are initial states of the model as well.
Start(t, n) ==
    /\ pc = "idle"
    /\ prev.outcome # "aborted"
    /\ args' = [tombstone |-> t, dry_run |-> n]
    /\ session' = committed
    /\ start' = [store |-> store, db |-> committed]
    /\ pc' = IF t THEN "tomb" ELSE "list"
    /\ idx' = 0
    /\ files' = {}
    /\ todo' = {}
    /\ total' = 0
    /\ count' = 0
    /\ retval' = <<>>
    /\ sizeCalls' = NoCalls
    /\ delCalls' = NoCalls
    /\ UNCHANGED <<store, committed, prev>>
    /\ Observed

\* make_tombstone: session.query(Executable).all()
TombQuery ==
    /\ pc = "tomb"
    /\ idx = 0
    /\ idx' = 1
    /\ UNCHANGED <<store, committed, session, pc, args, files, todo, total,
                   count, retval, sizeCalls, delCalls, start, prev>>
    /\ Observed

\* mutant of TombStep: the digest is left as it is
TombStepKeepsDigest ==
    /\ pc = "tomb"
    /\ idx >= 1
    /\ idx <= Len(session["Executable"])
    /\ count' = IF session["Executable"][idx]["digest"] # TOMBSTONE_DIGEST
                THEN count + 1
                ELSE count
    /\ idx' = idx + 1
    /\ UNCHANGED <<store, committed, session, pc, args, files, todo, total,
                   retval, sizeCalls, delCalls, start, prev>>
    /\ Observed

\* mutant of TombStep: every row is counted, tombstoned already or not
TombStepCountsAll ==
    /\ pc = "tomb"
    /\ idx >= 1
    /\ idx <= Len(session["Executable"])
    /\ count' = count + 1
    /\ session' = [session EXCEPT !["Executable"][idx]["digest"] =
                                      TOMBSTONE_DIGEST]
    /\ idx' = idx + 1
    /\ UNCHANGED <<store, committed, pc, args, files, todo, total, retval,
                   sizeCalls, delCalls, start, prev>>
    /\ Observed

\* mutant of TombStep: each rewrite is committed as it is made
TombStepAutocommits ==
    /\ pc = "tomb"
    /\ idx >= 1
    /\ idx <= Len(session["Executable"])
    /\ count' = IF session["Executable"][idx]["digest"] # TOMBSTONE_DIGEST
                THEN count + 1
                ELSE count
    /\ session' = [session EXCEPT !["Executable"][idx]["digest"] =
                                      TOMBSTONE_DIGEST]
    /\ committed' = session'
    /\ idx' = idx + 1
    /\ UNCHANGED <<store, pc, args, files, todo, total, retval,
                   sizeCalls, delCalls, start, prev>>
    /\ Observed

\* mutant of TombStep: the UserTestExecutable rows are overwritten as well
TombStepAlsoUserTest ==
    /\ pc = "tomb"
    /\ idx >= 1
    /\ idx <= Len(session["Executable"])
    /\ count' = IF session["Executable"][idx]["digest"] # TOMBSTONE_DIGEST
                THEN count + 1
                ELSE count
    /\ session' = [session EXCEPT
            !["Executable"][idx]["digest"] = TOMBSTONE_DIGEST,
            !["UserTestExecutable"] =
                [i \in 1..Len(@) |-> [digest |-> TOMBSTONE_DIGEST]]]
    /\ idx' = idx + 1
    /\ UNCHANGED <<store, committed, pc, args, files, todo, total, retval,
                   sizeCalls, delCalls, start, prev>>
    /\ Observed

\* make_tombstone: one iteration of the loop over the Executable rows
TombStep ==
    /\ pc = "tomb"
    /\ idx >= 1
    /\ idx <= Len(session["Executable"])
    /\ count' = IF session["Executable"][idx]["digest"] # TOMBSTONE_DIGEST
                THEN count + 1
                ELSE count
    /\ session' = [session EXCEPT !["Executable"][idx]["digest"] =
                                      TOMBSTONE_DIGEST]
    /\ idx' = idx + 1
    /\ UNCHANGED <<store, committed, pc, args, files, todo, total, retval,
                   sizeCalls, delCalls, start, prev>>
    /\ Observed

\* make_tombstone: the loop is over; it logs count and, having no return
\* statement, hands None back to main
TombReturn ==
    /\ pc = "tomb"
    /\ idx > Len(session["Executable"])
    /\ retval' = <<>>
    /\ pc' = "list"
    /\ idx' = 0
    /\ UNCHANGED <<store, committed, session, args, files, todo, total,
                   count, sizeCalls, delCalls, start, prev>>
    /\ Observed

\* clean_files: files = set(file[0] for file in filecacher.list())
List ==
    /\ pc = "list"
    /\ files' = store
    /\ idx' = NextPair(1)
    /\ pc' = "scan"
    /\ UNCHANGED <<store, committed, session, args, todo, total, count,
                   retval, sizeCalls, delCalls, start, prev>>
    /\ Observed

\* mutant of Scanned: the output columns are left out of the enumeration
ScannedSkipsOutput(fs, db, cls, col) ==
    IF col = "output" THEN fs ELSE fs \ FoundDigests(db, cls, col)

\* mutant of Scanned: the input columns are left out of the enumeration
ScannedSkipsInput(fs, db, cls, col) ==
    IF col = "input" THEN fs ELSE fs \ FoundDigests(db, cls, col)

\* files after one (cls, col) iteration that passed hasattr
Scanned(fs, db, cls, col) == fs \ FoundDigests(db, cls, col)

\* clean_files: one (cls, col) iteration; after the last one the orphans
\* are logged and the sizing loop starts
ScanStep ==
    /\ pc = "scan"
    /\ idx <= NumPairs
    /\ files' = Scanned(files, session, PairCls(idx), PairCol(idx))
    /\ idx' = NextPair(idx + 1)
    /\ IF idx' > NumPairs
       THEN pc' = "size" /\ todo' = files'
       ELSE UNCHANGED <<pc, todo>>
    /\ UNCHANGED <<store, committed, session, args, total, count, retval,
                   sizeCalls, delCalls, start, prev>>
    /\ Observed

\* mutant of SizeStep: the size is assigned, not added
SizeStepOverwrites ==
    /\ pc = "size"
    /\ \E orphan \in todo :
        /\ total' = get_size(orphan)
        /\ sizeCalls' = [sizeCalls EXCEPT ![orphan] = @ + 1]
        /\ todo' = todo \ {orphan}
    /\ UNCHANGED <<store, committed, session, pc, args, idx, files, count,
                   retval, delCalls, start, prev>>
    /\ Observed

\* clean_files: total_size += filecacher.get_size(orphan)
SizeStep ==
    /\ pc = "size"
    /\ \E orphan \in todo :
        /\ total' = total + get_size(orphan)
        /\ sizeCalls' = [sizeCalls EXCEPT ![orphan] = @ + 1]
        /\ todo' = todo \ {orphan}
    /\ UNCHANGED <<store, committed, session, pc, args, idx, files, count,
                   retval, delCalls, start, prev>>
    /\ Observed

\* mutant of SizeDone: the delete loop runs over what the store holds now
\* and no row references, not over files
SizeDoneRelists ==
    /\ pc = "size"
    /\ todo = {}
    /\ IF ~args.dry_run
       THEN /\ pc' = "delete"
            /\ todo' = files \cup
                 (store \ UNION {UNION {Projected(session, c, col) :
                        col \in {k \in Columns : HasAttr(c, k)}} :
                        c \in Classes})
       ELSE pc' = "returned" /\ todo' = {}
    /\ UNCHANGED <<store, committed, session, args, idx, files, total,
                   count, retval, sizeCalls, delCalls, start, prev>>
    /\ Observed

\* mutant of SizeDone: the delete loop is not guarded by dry_run
SizeDoneIgnoresDryRun ==
    /\ pc = "size"
    /\ todo = {}
    /\ pc' = "delete"
    /\ todo' = files
    /\ UNCHANGED <<store, committed, session, args, idx, files, total,
                   count, retval, sizeCalls, delCalls, start, prev>>
    /\ Observed

\* clean_files: the size is logged; "if not dry_run" guards the delete
\* loop and a dry run returns to main here
SizeDone ==
    /\ pc = "size"
    /\ todo = {}
    /\ IF ~args.dry_run
       THEN pc' = "delete" /\ todo' = files
       ELSE pc' = "returned" /\ todo' = {}
    /\ UNCHANGED <<store, committed, session, args, idx, files, total,
                   count, retval, sizeCalls, delCalls, start, prev>>
    /\ Observed

\* mutant of DeleteStep: the object stays in the store
DeleteStepKeeps ==
    /\ pc = "delete"
    /\ \E orphan \in todo :
        /\ delCalls' = [delCalls EXCEPT ![orphan] = @ + 1]
        /\ todo' = todo \ {orphan}
    /\ UNCHANGED <<store, committed, session, pc, args, idx, files, total,
                   count, retval, sizeCalls, start, prev>>
    /\ Observed

\* clean_files: filecacher.delete(orphan)
DeleteStep ==
    /\ pc = "delete"
    /\ \E orphan \in todo :
        /\ store' = store \ {orphan}
        /\ delCalls' = [delCalls EXCEPT ![orphan] = @ + 1]
        /\ todo' = todo \ {orphan}
    /\ UNCHANGED <<committed, session, pc, args, idx, files, total, count,
                   retval, sizeCalls, start, prev>>
    /\ Observed

\* clean_files returns to main after "All orphan files have been deleted"
DeleteDone ==
    /\ pc = "delete"
    /\ todo = {}
    /\ pc' = "returned"
    /\ UNCHANGED <<store, committed, session, args, idx, files, todo, total,
                   count, retval, sizeCalls, delCalls, start, prev>>
    /\ Observed

\* mutant of Commit: the commit is not guarded by dry_run
CommitAlways ==
    /\ pc = "returned"
    /\ committed' = session
    /\ pc' = "exit"
    /\ UNCHANGED <<store, session, args, idx, files, todo, total, count,
                   retval, sizeCalls, delCalls, start, prev>>
    /\ Observed

\* mutant of Commit: main leaves the with block without committing
CommitNever ==
    /\ pc = "returned"
    /\ pc' = "exit"
    /\ UNCHANGED <<store, committed, session, args, idx, files, todo, total,
                   count, retval, sizeCalls, delCalls, start, prev>>
    /\ Observed

\* main, after clean_files returned: if not args.dry_run: session.commit()
Commit ==
    /\ pc = "returned"
    /\ committed' = IF ~args.dry_run THEN session ELSE committed
    /\ pc' = "exit"
    /\ UNCHANGED <<store, session, args, idx, files, todo, total, count,
                   retval, sizeCalls, delCalls, start, prev>>
    /\ Observed

\* what the run leaves behind for the next one to be compared with: the
\* flags and the report of a run that came through, the starting stores
Summary(o) ==
    [outcome |-> o,
     tombstone |-> args.tombstone,
     dry_run |-> args.dry_run,
     orphans |-> IF o = "ok" THEN files ELSE {},
     total |-> IF o = "ok" THEN total ELSE 0,
     startStore |-> start.store, startDb |-> start.db]

\* SessionGen.__exit__: roll back what was not committed, close the
\* session; the process ends and its locals are gone
Leave(o) ==
    /\ session' = committed
    /\ prev' = Summary(o)
    /\ pc' = "idle"
    /\ idx' = 0
    /\ files' = {}
    /\ todo' = {}
    /\ total' = 0
    /\ count' = 0
    /\ retval' = <<>>
    /\ sizeCalls' = NoCalls
    /\ delCalls' = NoCalls
    /\ args' = [tombstone |-> FALSE, dry_run |-> FALSE]
    /\ start' = [store |-> store, db |-> committed]
    /\ UNCHANGED <<store, committed>>

\* main: the with block is left normally and main returns True
Exit ==
    /\ pc = "exit"
    /\ Leave("ok")
    /\ Observed

\* mutant of Fail: a failing delete is swallowed and the run goes on to
\* the summary
FailMasksDelete ==
    /\ pc \in {"tomb", "list", "scan", "size", "delete", "returned"}
    /\ IF pc = "delete"
       THEN /\ pc' = "returned"
            /\ UNCHANGED <<store, committed, session, args, idx, files, todo,
                           total, count, retval, sizeCalls, delCalls, start,
                           prev>>
       ELSE Leave("aborted")
    /\ Observed

\* a query, the listing, a size lookup, a delete or the commit raises, or
\* the process is terminated: the exception leaves the with block through
\* SessionGen.__exit__
Fail ==
    /\ pc \in {"tomb", "list", "scan", "size", "delete", "returned"}
    /\ Leave("aborted")
    /\ Observed

Next ==
    \/ \E t \in BOOLEAN, n \in BOOLEAN : Start(t, n)
    \/ TombQuery
    \/ TombStep
    \/ TombReturn
    \/ List
    \/ ScanStep
    \/ SizeStep
    \/ SizeDone
    \/ DeleteStep
    \/ DeleteDone
    \/ Commit
    \/ Fail
    \/ Exit

Spec == Init /\ [][Next]_vars

\* ------------------------------------------------- concurrent writers
\* The script takes no lock (spec 5): other processes may insert rows and
\* ingest objects while it runs.  A row committed by another process is
\* seen by the session's next query.
Logged(kind, c, r, d) ==
    [kind |-> kind, cls |-> c, row |-> r, d |-> d,
     pc |-> pc, idx |-> idx, inStore |-> store]

\* another process inserts and commits a row of class c; the list that
\* make_tombstone is iterating is the one its query returned
InsertRow(c, r) ==
    /\ Len(wlog) < MaxWrites
    /\ pc = "idle" => prev.outcome = "none"
    /\ ~(c = "Executable" /\ pc = "tomb" /\ idx >= 1)
    /\ committed' = [committed EXCEPT ![c] = Append(@, r)]
    /\ session' = [session EXCEPT ![c] = Append(@, r)]
    /\ wlog' = Append(wlog, Logged("row", c, r, None))
    /\ start' = IF pc = "idle"
                THEN [store |-> store, db |-> committed']
                ELSE start
    /\ UNCHANGED <<store, pc, args, idx, files, todo, total, count, retval,
                   sizeCalls, delCalls, prev, listed>>

\* another process ingests an object into the file store
IngestFile(d) ==
    /\ Len(wlog) < MaxWrites
    /\ pc = "idle" => prev.outcome = "none"
    /\ store' = store \cup {d}
    /\ wlog' = Append(wlog, Logged("file", "", <<>>, d))
    /\ start' = IF pc = "idle"
                THEN [store |-> store', db |-> committed]
                ELSE start
    /\ UNCHANGED <<committed, session, pc, args, idx, files, todo, total,
                   count, retval, sizeCalls, delCalls, prev, listed>>

\* one run of the script, from a database that holds Executable rows only
\* (a row of another class is one inserted before the run starts)
InitConc ==
    /\ Init
    /\ \A c \in Classes \ {"Executable"} : committed[c] = <<>>
    /\ Len(committed["Executable"]) <= MaxExeConc

\* the script is run once; what is written after it ended is of no
\* consequence to it
StartOnce(t, n) ==
    /\ prev.outcome = "none"
    /\ Start(t, n)

NextConc ==
    \/ \E t \in BOOLEAN, n \in BOOLEAN : StartOnce(t, n)
    \/ TombQuery
    \/ TombStep
    \/ TombReturn
    \/ List
    \/ ScanStep
    \/ SizeStep
    \/ SizeDone
    \/ DeleteStep
    \/ DeleteDone
    \/ Commit
    \/ Fail
    \/ Exit
    \/ \E c \in Classes : \E r \in RowsOf(c) : InsertRow(c, r)
    \/ \E d \in Digests : IngestFile(d)

SpecConc == InitConc /\ [][NextConc]_vars

\* ------------------------------------------------- what the claims speak of
\* every value held by a digest-valued column of any row of any class
FieldValues(db) ==
    UNION {UNION {Projected(db, c, col) : col \in Cols(c)} : c \in Classes}

\* the reference set R: the non-null values, the tombstone discarded
ReferenceSet(db) == FieldValues(db) \ {None, TOMBSTONE_DIGEST}

\* the scan is over and files is the orphan set
OrphansComputed == pc \in {"size", "delete", "returned", "exit"}

\* make_tombstone has returned to main
Tombstoned == args.tombstone /\ pc \in {"list", "scan", "size", "delete",
                                        "returned", "exit"}

\* the Executable rows whose digest is not the tombstone
Untombstoned(db) ==
    {i \in 1..Len(db["Executable"]) :
        db["Executable"][i]["digest"] # TOMBSTONE_DIGEST}

\* db with every Executable digest overwritten by the tombstone
AllTombstoned(db) ==
    [db EXCEPT !["Executable"] =
        [i \in 1..Len(db["Executable"]) |-> [digest |-> TOMBSTONE_DIGEST]]]

SizedSet == {d \in Digests : sizeCalls[d] > 0}
DeletedSet == {d \in Digests : delCalls[d] > 0}

\* this run began from the stores the previous, completed, run began from
SameStartAsPrev ==
    /\ prev.outcome = "ok"
    /\ prev.startStore = start.store
    /\ prev.startDb = start.db
    /\ prev.tombstone = args.tombstone

\* C1: the computed orphan set is the store listing minus the reference
\* set R (the union over every class and column of the non-null values, the
\* tombstone discarded), and so no orphan appears in any digest-valued field.
C1_OrphansAreStoreMinusRefs ==
    OrphansComputed =>
        /\ files = start.store \ ReferenceSet(session)
        /\ files \cap FieldValues(session) = {}

\* C2: the tombstone digest is never in the computed orphan set, is never
\* sized and is never passed to delete, whatever the store lists.
C2_TombstoneNeverOrphan ==
    /\ OrphansComputed => TOMBSTONE_DIGEST \notin files
    /\ sizeCalls[TOMBSTONE_DIGEST] = 0
    /\ delCalls[TOMBSTONE_DIGEST] = 0

\* C3: after a completed real run the store holds exactly the digests of
\* the initial listing that are the tombstone or are referenced, delete
\* having been called once on every other listed digest and on nothing else.
C3_StoreIsLiveSetAfterRealRun ==
    (pc = "exit" /\ ~args.dry_run) =>
        LET live == {d \in start.store :
                        d = TOMBSTONE_DIGEST \/ d \in ReferenceSet(session)}
        IN /\ store = live
           /\ \A d \in Digests :
                delCalls[d] = IF d \in start.store \ live THEN 1 ELSE 0

\* C4: from the same stores and the same tombstone flag a dry run and a
\* real run report the same orphan set and the same total size; the dry run
\* calls delete zero times and leaves the store alone, the real run removes
\* the orphans from the store.
C4_DryRunEquivalence ==
    /\ (pc = "exit" /\ SameStartAsPrev /\ prev.dry_run # args.dry_run) =>
            (files = prev.orphans /\ total = prev.total)
    /\ (pc # "idle" /\ args.dry_run) =>
            (delCalls = NoCalls /\ store = start.store)
    /\ (pc = "exit" /\ ~args.dry_run) =>
            (store = start.store \ files /\ DeletedSet = files)

C4_Witness ==
    /\ pc = "exit"
    /\ SameStartAsPrev
    /\ prev.dry_run
    /\ ~args.dry_run
    /\ args.tombstone
    /\ files # {}
    /\ store # start.store

C6_TombstoneIdempotent ==
    /\ Tombstoned => Untombstoned(session) = {}
    /\ (Tombstoned /\ prev.outcome = "ok" /\ prev.tombstone
            /\ ~prev.dry_run) =>
                (count = 0 /\ session = start.db)

C6_Witness ==
    /\ Tombstoned
    /\ pc = "list"
    /\ prev.outcome = "ok"
    /\ prev.tombstone
    /\ ~prev.dry_run
    /\ Cardinality(Untombstoned(prev.startDb)) >= 2
    /\ count = 0

\* C7: a run of clean_files that follows a completed real run, no row and
\* no stored object having been written in between, finds no orphan, reports
\* total size 0 and calls delete zero times.
C7_Convergence ==
    (OrphansComputed /\ prev.outcome = "ok" /\ ~prev.dry_run
        /\ session = start.db) =>
            (files = {} /\ total = 0 /\ delCalls = NoCalls)

C7_Witness ==
    /\ pc = "exit"
    /\ ~args.dry_run
    /\ prev.outcome = "ok"
    /\ ~prev.dry_run
    /\ prev.orphans # {}
    /\ session = start.db
    /\ store # {}

\* C8: the reported total is the sum of get_size over the orphans, each
\* sized exactly once and nothing else sized, and the digests a real run
\* deletes are exactly the digests that were sized.
C8_SizeAccounting ==
    /\ pc \in {"delete", "returned", "exit"} =>
            /\ total = SumSize(files)
            /\ \A d \in Digests :
                    sizeCalls[d] = IF d \in files THEN 1 ELSE 0
    /\ (pc \in {"returned", "exit"} /\ ~args.dry_run) =>
            /\ DeletedSet = SizedSet
            /\ total = SumSize(DeletedSet)
            /\ \A d \in Digests : delCalls[d] <= 1

C8_Witness ==
    /\ pc = "exit"
    /\ ~args.dry_run
    /\ Cardinality(files) >= 2
    /\ DeletedSet = files

\* C9 as claimed: make_tombstone returns to its caller the number of
\* Executable rows whose digest differed from the tombstone before the call.
C9_ReturnsChangedCount ==
    (Tombstoned /\ pc = "list") =>
        retval = <<Cardinality(Untombstoned(start.db))>>

\* C9: make_tombstone counts (and logs) the number of Executable rows whose
\* digest differed from the tombstone before the call; what it returns to
\* its caller is None.
C9_LogsChangedCount ==
    (Tombstoned /\ pc = "list") =>
        /\ count = Cardinality(Untombstoned(start.db))
        /\ retval = <<>>

C9_Witness ==
    /\ Tombstoned
    /\ pc = "list"
    /\ count = 1
    /\ Len(start.db["Executable"]) = 2

\* C10: an aborted driver run leaves the committed relational state as it
\* was before the run; nothing is committed before the commit of main, and
\* what is committed holds all of the run's Executable rewrites or none.
C10_AbortLeavesDbUnchanged ==
    /\ pc \notin {"idle", "exit"} => committed = start.db
    /\ (pc = "idle" /\ prev.outcome = "aborted") =>
            (committed = prev.startDb /\ session = committed)
    /\ pc = "exit" => committed \in {start.db, AllTombstoned(start.db)}

C10_Witness ==
    /\ pc = "idle"
    /\ prev.outcome = "aborted"
    /\ prev.tombstone
    /\ ~prev.dry_run
    /\ store # prev.startStore
    /\ Untombstoned(committed) # {}

\* a deleted digest counts as referenced by db when some row of db holds it;
\* a field holding the tombstone references no content
ReferencedDeleted(db) == DeletedSet \cap ReferenceSet(db)

\* C11 as claimed: at every point of a driver run, and after an abort, no
\* digest already deleted from the file store is referenced by an entity of
\* the committed relational state.
C11_DeletedUnreferencedInCommitted ==
    /\ pc # "idle" => ReferencedDeleted(committed) = {}
    /\ (pc = "idle" /\ prev.outcome = "aborted") =>
            (prev.startStore \ store) \cap ReferenceSet(committed) = {}

\* C11: at every point of a driver run no digest already deleted is
\* referenced by an entity as the session sees it (rewrites included); in
\* a run without the tombstone flag, and in any run once main has committed,
\* none is referenced in the committed state either.  In a run with the
\* tombstone flag the deletions precede the commit: until then, and for
\* good when the run is aborted, a deleted digest may be referenced in the
\* committed state, by Executable records only.
C11_DeletedUnreferencedInSession ==
    /\ pc # "idle" =>
            /\ ReferencedDeleted(session) = {}
            /\ ReferencedDeleted(AllTombstoned(committed)) = {}
    /\ (pc # "idle" /\ ~args.tombstone) => ReferencedDeleted(committed) = {}
    /\ pc = "exit" => ReferencedDeleted(committed) = {}
    /\ (pc = "idle" /\ prev.outcome = "aborted") =>
            /\ (prev.startStore \ store)
                    \cap ReferenceSet(AllTombstoned(committed)) = {}
            /\ ~prev.tombstone =>
                    (prev.startStore \ store)
                        \cap ReferenceSet(committed) = {}

C11_Witness ==
    /\ pc = "idle"
    /\ prev.outcome = "aborted"
    /\ prev.tombstone
    /\ ~prev.dry_run
    /\ (prev.startStore \ store) \cap ReferenceSet(committed) # {}
    /\ store \cap RealDigests # {}

\* the listed digests that, when the run began, only Executable records
\* referenced, and those that some other record referenced
OnlyExeReferenced ==
    (start.store \cap ReferenceSet(start.db))
        \ ReferenceSet(AllTombstoned(start.db))
OtherwiseReferenced ==
    start.store \cap ReferenceSet(AllTombstoned(start.db))

\* C12: in a run with the tombstone flag make_tombstone has run before
\* clean_files scans and the scan sees its rewrites: every listed digest
\* that only Executable records referenced before the run is an orphan of
\* this run (and is deleted by it unless it is a dry run), and no listed
\* digest that another record references is.
C12_TombstonedContentIsCollected ==
    (args.tombstone /\ OrphansComputed) =>
        /\ session = AllTombstoned(start.db)
        /\ OnlyExeReferenced \subseteq files
        /\ OtherwiseReferenced \cap files = {}
        /\ (pc \in {"returned", "exit"} /\ ~args.dry_run) =>
                /\ OnlyExeReferenced \subseteq DeletedSet
                /\ OnlyExeReferenced \cap store = {}
                /\ OtherwiseReferenced \subseteq store
        /\ args.dry_run => OnlyExeReferenced \subseteq store

C12_Witness ==
    /\ args.tombstone
    /\ pc = "exit"
    /\ ~args.dry_run
    /\ OnlyExeReferenced # {}
    /\ OtherwiseReferenced # {}
    /\ Untombstoned(start.db) # {}
    /\ committed = session

\* C13: a failing delete is not masked.  The summary "All orphan files have
\* been deleted" and the commit are reached only with every orphan deleted;
\* a step that leaves the delete loop while orphans remain ends the run
\* aborted with nothing committed, the orphans deleted so far gone from the
\* store and the failing and remaining ones still in it.
C13_DeleteFailureNotMasked ==
    /\ []((pc \in {"returned", "exit"} /\ ~args.dry_run) =>
            (DeletedSet = files /\ files \cap store = {}))
    /\ [][(pc = "delete" /\ todo # {} /\ pc' # "delete") =>
            /\ pc' = "idle"
            /\ prev'.outcome = "aborted"
            /\ committed' = start.db
            /\ store' = start.store \ DeletedSet
            /\ todo \subseteq store'
            /\ DeletedSet = files \ todo]_vars

C13_Witness ==
    /\ pc = "idle"
    /\ prev.outcome = "aborted"
    /\ ~prev.dry_run
    /\ ~prev.tombstone
    /\ prev.startStore \ store # {}
    /\ (store \cap RealDigests) \ ReferenceSet(committed) # {}

NonExecutable(db) ==
    [c \in Classes |-> IF c = "Executable" THEN Len(db[c]) ELSE db[c]]

\* C17: no step of make_tombstone commits or touches the file store, and
\* while the session stays open it changes nothing but the digest of
\* Executable rows: the rows of every other class and the number of rows of
\* every class stay as they are.  No step of clean_files writes an entity
\* field.
C17_TombstoneFrame ==
    /\ [][pc = "tomb" =>
            /\ committed' = committed
            /\ store' = store
            /\ pc' # "idle" =>
                    NonExecutable(session') = NonExecutable(session)]_vars
    /\ [][(pc \in {"list", "scan", "size", "delete"} /\ pc' # "idle") =>
            (session' = session /\ committed' = committed)]_vars
    /\ []((Tombstoned /\ pc = "list") =>
            /\ session = AllTombstoned(start.db)
            /\ committed = start.db
            /\ store = start.store)

C17_Witness ==
    /\ Tombstoned
    /\ pc = "list"
    /\ count >= 1
    /\ Projected(session, "UserTestExecutable", "digest")
            \cap RealDigests # {}
    /\ store # {}

\* the number of the (cls, col) iteration of the scan
PairIndex(cls, col) ==
    CHOOSE k \in 1..NumPairs : PairCls(k) = cls /\ PairCol(k) = col

\* the scan had passed column col of the row's class when e was written
ScannedBefore(e, col) ==
    \/ e.pc \in {"size", "delete"}
    \/ e.pc = "scan" /\ PairIndex(e.cls, col) < e.idx

\* the stored digests to which the inserted row e is a reference that came
\* after the scan of every column holding it
LateRefs(e) ==
    IF e.kind # "row" THEN {}
    ELSE {d \in e.inStore \ {TOMBSTONE_DIGEST} :
            /\ \E col \in Cols(e.cls) : e.row[col] = d
            /\ \A col \in Cols(e.cls) :
                    e.row[col] = d => ScannedBefore(e, col)}

AllLateRefs == UNION {LateRefs(wlog[i]) : i \in 1..Len(wlog)}

\* C15: with a concurrent writer clean_files deletes a digest that an
\* entity references, and only in this way: the reference to the stored
\* digest was inserted after the scan of the field holding it and before
\* the deletion.  Such a digest, left in files, is deleted all the same by
\* a real run that comes through; when no process has written anything no
\* deleted digest is referenced.
C15_DeletesReferencedOnlyByRace ==
    /\ [][\A d \in Digests :
            (delCalls'[d] > delCalls[d] /\ d \in ReferenceSet(session)) =>
                d \in AllLateRefs]_vars
    /\ [](wlog = <<>> => ReferencedDeleted(session) = {})
    /\ []((pc \in {"returned", "exit"} /\ ~args.dry_run) =>
            AllLateRefs \cap files \subseteq ReferencedDeleted(session))

C15_Witness ==
    /\ pc = "exit"
    /\ ~args.dry_run
    /\ committed = session
    /\ \E d \in AllLateRefs :
        /\ d \in DeletedSet
        /\ d \notin store
        /\ d \in ReferenceSet(committed)

\* the objects another process ingested after this run's listing was taken
\* and that the listing does not hold
LateIngests ==
    {wlog[i].d : i \in {j \in 1..Len(wlog) :
        /\ wlog[j].kind = "file"
        /\ wlog[j].pc \in {"scan", "size", "delete", "returned", "exit"}
        /\ wlog[j].d \notin listed}}

\* C16: what clean_files sizes and deletes is a subset of the listing it
\* took at its start: an object ingested by another process after the
\* listing is neither sized nor deleted by this run and stays in the store,
\* and no step of the script adds an object to the store.
C16_DeletesOnlyListed ==
    /\ [](/\ files \subseteq listed
          /\ SizedSet \subseteq listed
          /\ DeletedSet \subseteq listed)
    /\ [](pc # "idle" =>
            \A d \in LateIngests :
                sizeCalls[d] = 0 /\ delCalls[d] = 0 /\ d \in store)
    /\ [][wlog' = wlog => store' \subseteq store]_vars

C16_Witness ==
    /\ pc = "exit"
    /\ ~args.dry_run
    /\ DeletedSet # {}
    /\ \E d \in LateIngests \cap RealDigests :
        /\ d \in store
        /\ d \notin ReferenceSet(session)

====
